---- MODULE Spec2Model ----
(***************************************************************************)
(* A model of mrjob/fs/s3.py: the S3 filesystem facade (ls, exists, rm,    *)
(* touchz, get_bucket) and the retry policy of the wrapped boto3 client.   *)
(*                                                                         *)
(* Strings are sequences of one-character strings, so that prefixes, glob  *)
(* matching and URI construction are computed and not assumed.             *)
(***************************************************************************)
EXTENDS Integers, Sequences, FiniteSets

VARIABLES
    objects,        \* the bucket's content: key -> size of the object
    s3_endpoint_url,\* self._s3_endpoint_url (None, "" or a URL)
    s3_region,      \* self._s3_region
    call,           \* the facade call in progress and how it ended
    requests,       \* what that call constructed and sent, in order
    ex,             \* the error handed to the retry predicates
    verdict,        \* what the retry predicates answered for ex
    pc,             \* where the retry wrapper's call is
    tries,          \* call_and_maybe_retry: tries
    backoff,        \* call_and_maybe_retry: backoff, <<b, n, d>> for b * n / d seconds
    slept,          \* the time.sleep() arguments of the call, in order
    attempts,       \* how many times the wrapped method was invoked
    outcomes,       \* how each attempt ended: "ok", "retriable" or "fatal"
    last            \* the error of the last attempt

vars == <<objects, s3_endpoint_url, s3_region, call, requests, ex, verdict,
          pc, tries, backoff, slept, attempts, outcomes, last>>

fsVars == <<objects, s3_endpoint_url, s3_region, call, requests>>
classifyVars == <<ex, verdict>>
retryVars == <<pc, tries, backoff, slept, attempts, outcomes, last>>

(***************************************************************************)
(* Bounds of the model.                                                    *)
(***************************************************************************)
MaxKeyLen == 3
MaxGlobLen == 3
MaxKeys == 2

None == "None"

\* The characters object keys are made of: two letters that differ only in
\* case, and the path separator.
KeyChars == {"a", "A", "/"}
Wildcards == {"*", "?"}

SeqsUpTo(S, n) == UNION {[1..k -> S] : k \in 0..n}

RECURSIVE SubsetsUpTo(_, _)
SubsetsUpTo(S, n) ==
    IF n = 0 THEN {{}}
    ELSE LET P == SubsetsUpTo(S, n - 1)
         IN  P \cup {p \cup {x} : p \in P, x \in S}

Keys == SeqsUpTo(KeyChars, MaxKeyLen) \ {<<>>}
KeyGlobs == SeqsUpTo(KeyChars \cup Wildcards, MaxGlobLen)

S3 == <<"s", "3">>
S3N == <<"s", "3", "n">>
Schemes == {S3, S3N}
BucketName == <<"b">>

\* scheme://b/key, the URI of a key (or key glob) of the bucket
Uri(sch, key) == sch \o <<":", "/", "/">> \o BucketName \o <<"/">> \o key

\* The path globs handed to the facade: a bucket URI with no key at all, or
\* scheme://bucket/ followed by a key glob.
PathGlobs ==
    {sch \o <<":", "/", "/">> \o BucketName : sch \in Schemes}
    \cup {Uri(sch, g) : sch \in Schemes, g \in KeyGlobs}

\* "%s://%s/%s" % (scheme, bucket_name, key.key)
format_uri(scheme, bucket_name, key) ==
    scheme \o <<":", "/", "/">> \o bucket_name \o <<"/">> \o key

(***************************************************************************)
(* String helpers.                                                         *)
(***************************************************************************)
startswith(s, p) == Len(p) <= Len(s) /\ SubSeq(s, 1, Len(p)) = p

endswith(s, c) == Len(s) > 0 /\ s[Len(s)] = c

\* index of the first element of s that is in C, or Len(s) + 1
FirstIn(s, C) ==
    IF \E i \in 1..Len(s) : s[i] \in C
    THEN CHOOSE i \in 1..Len(s) : s[i] \in C /\ \A j \in 1..(i - 1) : s[j] \notin C
    ELSE Len(s) + 1

\* F applied to the value of v, which is computed once
Let(v, F(_)) == CHOOSE r \in {F(x) : x \in {v}} : TRUE

\* the last client or resource of a sequence of requests
Through(reqs) == reqs[Len(reqs)]

(***************************************************************************)
(* mrjob.parse and mrjob.runner, which s3.py imports.                      *)
(***************************************************************************)
\* urlparse(uri): scheme, netloc and path of scheme://netloc/path
urlparse(uri) ==
    LET colon == FirstIn(uri, {":"})
        hasNetloc == /\ colon + 2 <= Len(uri)
                     /\ uri[colon + 1] = "/"
                     /\ uri[colon + 2] = "/"
        rest == IF hasNetloc THEN SubSeq(uri, colon + 3, Len(uri))
                ELSE SubSeq(uri, colon + 1, Len(uri))
        slash == FirstIn(rest, {"/"})
    IN  IF colon > Len(uri)
        THEN [scheme |-> <<>>, netloc |-> <<>>, path |-> uri]
        ELSE [scheme |-> SubSeq(uri, 1, colon - 1),
              netloc |-> IF hasNetloc THEN SubSeq(rest, 1, slash - 1) ELSE <<>>,
              path |-> IF hasNetloc THEN SubSeq(rest, slash, Len(rest)) ELSE rest]

\* parse_s3_uri(uri): (bucket name, key name), or ValueError
parse_s3_uri(uri) ==
    LET c == urlparse(uri)
    IN  IF c.scheme \notin {S3, S3N, <<"s", "3", "a">>} \/ ~(\E i \in 1..Len(c.path) : c.path[i] = "/")
        THEN [error |-> "ValueError"]
        ELSE [error |-> None, bucket_name |-> c.netloc, key_name |-> Tail(c.path)]

\* base_uri: glob_match.group(1) if GLOB_RE matches (the text before the
\* first wildcard), else the whole path_glob
glob_base(path_glob) ==
    IF \E i \in 1..Len(path_glob) : path_glob[i] \in Wildcards
    THEN SubSeq(path_glob, 1, FirstIn(path_glob, Wildcards) - 1)
    ELSE path_glob

(***************************************************************************)
(* fnmatch.fnmatchcase(name, pat): pat translated to a regular expression  *)
(* ('*' is '.*', '?' is '.', any other character itself) that must match   *)
(* the whole of name, with no case normalisation.                          *)
(***************************************************************************)
RECURSIVE MatchFrom(_, _, _, _)
MatchFrom(name, pat, i, j) ==
    IF j > Len(pat) THEN i > Len(name)
    ELSE IF pat[j] = "*"
         THEN \/ MatchFrom(name, pat, i, j + 1)
              \/ (i <= Len(name) /\ MatchFrom(name, pat, i + 1, j))
         ELSE /\ i <= Len(name)
              /\ (pat[j] = "?" \/ pat[j] = name[i])
              /\ MatchFrom(name, pat, i + 1, j + 1)

\* os.path.normcase() of a platform that folds case
normcase(s) == [i \in 1..Len(s) |-> IF s[i] = "A" THEN "a" ELSE s[i]]

\* fnmatch.fnmatch(): both sides through os.path.normcase() first
fnmatch_normcase(name, pat) == MatchFrom(normcase(name), normcase(pat), 1, 1)

fnmatchcase(name, pat) == MatchFrom(name, pat, 1, 1)

(***************************************************************************)
(* The store and its faults, as one facade call meets them.                *)
(***************************************************************************)
\* mrjob.aws._S3_REGION_WITH_NO_LOCATION_CONSTRAINT
NoLocationConstraintRegion == "us-east-1"

\* What client.get_bucket_location(Bucket=...) does: a response, or a
\* botocore ClientError with the HTTP status the handler looks at.
LocationFound ==
    {[error |-> None, LocationConstraint |-> lc, HTTPStatusCode |-> 200] :
        lc \in {None, "us-west-2"}}
LocationDenied == [error |-> "ClientError", LocationConstraint |-> None, HTTPStatusCode |-> 403]
LocationMissing == [error |-> "ClientError", LocationConstraint |-> None, HTTPStatusCode |-> 404]
LocationOutcomes == LocationFound \cup {LocationDenied, LocationMissing}

\* What the key enumeration does: the keys, or a ClientError (NoSuchBucket)
ListingOutcomes == {"ok", "NoSuchBucket"}

\* Endpoints are sequences of tokens; Python's None is the token None alone.
NoEndpoint == <<None>>
EndpointSchemes == {"https://", "http://"}
Endpoints == {NoEndpoint, <<>>, <<"s3.example.com">>, <<"http://", "localhost:9000">>,
              <<"https://", "s3.example.com">>}
\* The region hints of the model are no region a bucket reports.
RegionHints == {None, "hint-region"}

Falsy(x) == x = NoEndpoint \/ x = <<>>

\* mrjob.parse.is_uri(): does the text start with a scheme
is_uri(host_or_uri) == Len(host_or_uri) > 0 /\ host_or_uri[1] \in EndpointSchemes

_endpoint_url(host_or_uri) ==
    IF Falsy(host_or_uri) THEN host_or_uri
    ELSE IF is_uri(host_or_uri) THEN host_or_uri
    ELSE <<"https://">> \o host_or_uri

(***************************************************************************)
(* Clients, resources and buckets.                                         *)
(***************************************************************************)
\* _client_kwargs with the endpoint overridden and the region left as passed
_client_kwargs_keeps_region(region_name) ==
    [endpoint_url |-> IF ~Falsy(s3_endpoint_url) THEN s3_endpoint_url ELSE NoEndpoint,
     region_name |-> region_name]

_client_kwargs(region_name) ==
    IF ~Falsy(s3_endpoint_url)
    THEN [endpoint_url |-> s3_endpoint_url, region_name |-> s3_region]
    ELSE [endpoint_url |-> NoEndpoint, region_name |-> region_name]

Request(api, kwargs, arg) ==
    [api |-> api, endpoint_url |-> kwargs.endpoint_url,
     region_name |-> kwargs.region_name, arg |-> arg]

\* make_s3_client(region_name): boto3.client('s3', **kwargs), wrapped
make_s3_client(region_name) == Request("boto3.client", _client_kwargs(region_name), <<>>)

\* make_s3_resource(region_name): boto3.resource('s3', **kwargs)
make_s3_resource(region_name) == Request("boto3.resource", _client_kwargs(region_name), <<>>)

\* _get_bucket_region: resp['LocationConstraint'] or the default region
_get_bucket_region(loc) ==
    IF loc.LocationConstraint = None THEN NoLocationConstraintRegion
    ELSE loc.LocationConstraint

\* The names get_bucket's except clause can read: the handler is
\* "except botocore.exceptions.ClientError:" with no "as ex", and the module
\* has no global of that name.
HandlerNames == {"self", "bucket_name", "client"}

\* get_bucket(bucket_name): [error, region_name, requests]
get_bucket(bucket_name, loc) ==
    LET client == make_s3_client(None)
        lookup == Request("get_bucket_location", client, bucket_name)
    IN  IF loc.error # None
        THEN \* the handler's first statement reads ex
             IF "ex" \notin HandlerNames
             THEN [error |-> "NameError", region_name |-> None,
                   requests |-> <<client, lookup>>]
             ELSE IF loc.HTTPStatusCode # 403
             THEN [error |-> "ClientError", region_name |-> None,
                   requests |-> <<client, lookup>>]
             ELSE [error |-> None, region_name |-> None,
                   requests |-> <<client, lookup, make_s3_resource(None)>>]
        ELSE LET region_name == _get_bucket_region(loc)
             IN  [error |-> None, region_name |-> region_name,
                  requests |-> <<client, lookup, make_s3_resource(region_name)>>]

\* What resource.Bucket(name), a boto3 s3.Bucket, has: its identifiers,
\* actions, sub-resources and collections. get_key and new_key are methods
\* of boto 2's Bucket and are not among them.
Boto3BucketAttributes ==
    {"name", "creation_date", "meta", "objects", "object_versions",
     "multipart_uploads", "Object", "put_object", "delete_objects", "copy",
     "create", "delete", "load", "upload_file", "download_file",
     "upload_fileobj", "download_fileobj", "wait_until_exists"}

(***************************************************************************)
(* S3Filesystem.ls                                                         *)
(***************************************************************************)
\* dir_glob as it was before 0.5.0: always path_glob + '*'
dir_glob_no_separator(path_glob) == path_glob \o <<"*">>

\* dir_glob: allow subdirectories of the path/glob
dir_glob(path_glob) ==
    IF path_glob # <<>> /\ ~endswith(path_glob, "/")
    THEN path_glob \o <<"/", "*">>
    ELSE path_glob \o <<"*">>

\* the filter left out: every key of the prefix scan is yielded
no_globbing(uri, path_glob) == TRUE

\* enforce globbing: the URI matches path_glob or dir_glob
enforce_globbing(uri, path_glob) ==
    \/ fnmatchcase(uri, path_glob)
    \/ fnmatchcase(uri, dir_glob(path_glob))

\* bucket.objects.filter(Prefix=base_name): the keys of the bucket that
\* start with base_name (the model holds the objects of BucketName only)
objects_filter(bucket_name, Prefix) ==
    IF bucket_name = BucketName
    THEN {k \in DOMAIN objects : startswith(k, Prefix)}
    ELSE {}

\* ls(path_glob) run to its end: [error, yielded, requests]
ls(path_glob, loc, listing) ==
    LET scheme == urlparse(path_glob).scheme
        base_uri == glob_base(path_glob)
    IN  Let(parse_s3_uri(base_uri), LAMBDA parsed :
        IF parsed.error # None
        THEN [error |-> parsed.error, yielded |-> {}, requests |-> <<>>]
        ELSE Let(get_bucket(parsed.bucket_name, loc), LAMBDA bucket :
            LET bucket_name == parsed.bucket_name
                base_name == parsed.key_name
                scan == Request("list_objects", Through(bucket.requests), base_name)
            IN  IF bucket.error # None
                THEN [error |-> bucket.error, yielded |-> {}, requests |-> bucket.requests]
                ELSE IF listing # "ok"
                THEN [error |-> "ClientError", yielded |-> {},
                      requests |-> Append(bucket.requests, scan)]
                ELSE [error |-> None,
                      yielded |->
                          {uri \in {format_uri(scheme, bucket_name, key) :
                                        key \in objects_filter(bucket_name, base_name)} :
                              enforce_globbing(uri, path_glob)},
                      requests |-> Append(bucket.requests, scan)]))

(***************************************************************************)
(* get_s3_key, make_s3_key and the calls built on them.                    *)
(***************************************************************************)
\* get_s3_key(uri): [error, found, size, requests]. An error of get_bucket
\* reaches "except boto.exception.S3ResponseError": none of get_bucket's
\* errors is one, and without boto installed (boto = None) evaluating the
\* clause raises AttributeError in its place.
get_s3_key(uri, loc, boto_installed) ==
    Let(parse_s3_uri(uri), LAMBDA parsed :
        IF parsed.error # None
        THEN [error |-> parsed.error, found |-> FALSE, size |-> 0, requests |-> <<>>]
        ELSE Let(get_bucket(parsed.bucket_name, loc), LAMBDA bucket :
            IF bucket.error # None
            THEN [error |-> IF boto_installed THEN bucket.error ELSE "AttributeError",
                  found |-> FALSE, size |-> 0, requests |-> bucket.requests]
            ELSE IF "get_key" \notin Boto3BucketAttributes
            THEN [error |-> "AttributeError", found |-> FALSE, size |-> 0,
                  requests |-> bucket.requests]
            ELSE LET key_name == parsed.key_name
                     found == parsed.bucket_name = BucketName /\ key_name \in DOMAIN objects
                 IN  [error |-> None,
                      found |-> found,
                      size |-> IF found THEN objects[key_name] ELSE 0,
                      requests |-> Append(bucket.requests,
                                          Request("head_object", Through(bucket.requests),
                                                  key_name))]))

\* make_s3_key(uri): [error, key_name, requests]
make_s3_key(uri, loc) ==
    Let(parse_s3_uri(uri), LAMBDA parsed :
        IF parsed.error # None
        THEN [error |-> parsed.error, key_name |-> <<>>, requests |-> <<>>]
        ELSE Let(get_bucket(parsed.bucket_name, loc), LAMBDA bucket :
            IF bucket.error # None
            THEN [error |-> bucket.error, key_name |-> <<>>, requests |-> bucket.requests]
            ELSE IF "new_key" \notin Boto3BucketAttributes
            THEN [error |-> "AttributeError", key_name |-> <<>>, requests |-> bucket.requests]
            ELSE [error |-> None, key_name |-> parsed.key_name,
                  requests |-> bucket.requests]))

\* exists(path_glob): [error, ret, requests]. self.ls() only makes the
\* generator; it runs inside any(paths), after the try statement has ended,
\* so what it raises is not caught.
exists(path_glob, loc, listing) ==
    Let(ls(path_glob, loc, listing), LAMBDA paths :
        [error |-> paths.error,
         ret |-> IF paths.error # None THEN None
                 ELSE IF paths.yielded # {} THEN "True" ELSE "False",
         requests |-> paths.requests])

\* rm(path_glob): [error, objects, requests]. Each URI ls yields goes to
\* get_s3_key, and the first error ends the loop; with every key fetched the
\* yielded keys are deleted.
rm(path_glob, loc, listing, boto_installed) ==
    Let(ls(path_glob, loc, listing), LAMBDA paths :
        IF paths.error # None
        THEN [error |-> paths.error, objects |-> objects, requests |-> paths.requests]
        ELSE Let({get_s3_key(uri, loc, boto_installed) : uri \in paths.yielded}, LAMBDA keys :
            IF \E k \in keys : k.error # None
            THEN LET k == CHOOSE f \in keys : f.error # None
                 IN  [error |-> k.error, objects |-> objects,
                      requests |-> paths.requests \o k.requests]
            ELSE LET gone == {parse_s3_uri(uri).key_name : uri \in paths.yielded}
                 IN  [error |-> None,
                      objects |-> [k \in DOMAIN objects \ gone |-> objects[k]],
                      requests |-> paths.requests \o
                          [i \in 1..Cardinality(gone) |->
                              Request("delete_object", Through(paths.requests), <<>>)]]))

\* touchz(dest): [error, objects, requests]
touchz(dest, loc, boto_installed) ==
    Let(get_s3_key(dest, loc, boto_installed), LAMBDA key :
        IF key.error # None
        THEN [error |-> key.error, objects |-> objects, requests |-> key.requests]
        ELSE IF key.found /\ key.size # 0
        THEN [error |-> "OSError", objects |-> objects, requests |-> key.requests]
        ELSE Let(make_s3_key(dest, loc), LAMBDA new :
            IF new.error # None
            THEN [error |-> new.error, objects |-> objects,
                  requests |-> key.requests \o new.requests]
            ELSE [error |-> None,
                  objects |-> [k \in DOMAIN objects \cup {new.key_name} |->
                                  IF k = new.key_name THEN 0 ELSE objects[k]],
                  requests |-> key.requests \o new.requests \o
                      <<Request("put_object", Through(new.requests), new.key_name)>>]))

(***************************************************************************)
(* The facade as a state machine: one action per call, run to its end.     *)
(***************************************************************************)
LocationDefault == [error |-> None, LocationConstraint |-> None, HTTPStatusCode |-> 200]

NoCall == [op |-> "none", arg |-> <<>>, loc |-> LocationDefault, listing |-> "ok",
           error |-> None, yielded |-> {}, ret |-> None]

Called(op, arg, loc, listing, r) ==
    [op |-> op, arg |-> arg, loc |-> loc, listing |-> listing,
     error |-> r.error, yielded |-> r.yielded, ret |-> r.ret]

NoError == [cls |-> "none", code |-> <<>>, body |-> <<>>, status |-> 0, args |-> <<>>]

ClassifyIdle == ex = NoError /\ verdict = [client |-> FALSE, conn |-> FALSE]

RetryIdle == /\ pc = "idle" /\ tries = 0 /\ backoff = <<0, 1, 1>> /\ slept = <<>>
             /\ attempts = 0 /\ outcomes = <<>> /\ last = NoError

FsIdle == /\ objects = <<>> /\ s3_endpoint_url = NoEndpoint /\ s3_region = None
          /\ call = NoCall /\ requests = <<>>

\* the objects a bucket can hold: at most n keys out of K, sizes out of Z
Buckets(K, n, Z) == UNION {[S -> Z] : S \in SubsetsUpTo(K, n)}

Ls(Paths, Locs, Listings) ==
    /\ call.op = "none"
    /\ \E path_glob \in Paths, loc \in Locs, listing \in Listings :
        \E r \in {ls(path_glob, loc, listing)} :
            /\ call' = Called("ls", path_glob, loc, listing,
                              [error |-> r.error, yielded |-> r.yielded, ret |-> None])
            /\ requests' = r.requests
            /\ UNCHANGED <<objects, s3_endpoint_url, s3_region, classifyVars, retryVars>>

Exists(Paths, Locs, Listings) ==
    /\ call.op = "none"
    /\ \E path_glob \in Paths, loc \in Locs, listing \in Listings :
        \E r \in {exists(path_glob, loc, listing)} :
            /\ call' = Called("exists", path_glob, loc, listing,
                              [error |-> r.error, yielded |-> {}, ret |-> r.ret])
            /\ requests' = r.requests
            /\ UNCHANGED <<objects, s3_endpoint_url, s3_region, classifyVars, retryVars>>

Rm(Paths, Locs, Listings) ==
    /\ call.op = "none"
    /\ \E path_glob \in Paths, loc \in Locs, listing \in Listings, boto_installed \in BOOLEAN :
        \E r \in {rm(path_glob, loc, listing, boto_installed)} :
            /\ call' = Called("rm", path_glob, loc, listing,
                              [error |-> r.error, yielded |-> {}, ret |-> None])
            /\ objects' = r.objects
            /\ requests' = r.requests
            /\ UNCHANGED <<s3_endpoint_url, s3_region, classifyVars, retryVars>>

Touchz(Paths, Locs) ==
    /\ call.op = "none"
    /\ \E dest \in Paths, loc \in Locs, boto_installed \in BOOLEAN :
        \E r \in {touchz(dest, loc, boto_installed)} :
            /\ call' = Called("touchz", dest, loc, "ok",
                              [error |-> r.error, yielded |-> {}, ret |-> None])
            /\ objects' = r.objects
            /\ requests' = r.requests
            /\ UNCHANGED <<s3_endpoint_url, s3_region, classifyVars, retryVars>>

GetBucket(Locs) ==
    /\ call.op = "none"
    /\ \E loc \in Locs :
        \E r \in {get_bucket(BucketName, loc)} :
            /\ call' = Called("get_bucket", BucketName, loc, "ok",
                              [error |-> r.error, yielded |-> {}, ret |-> r.region_name])
            /\ requests' = r.requests
            /\ UNCHANGED <<objects, s3_endpoint_url, s3_region, classifyVars, retryVars>>

\* the call returns to its caller
Return ==
    /\ call.op # "none"
    /\ call' = NoCall
    /\ requests' = <<>>
    /\ UNCHANGED <<objects, s3_endpoint_url, s3_region, classifyVars, retryVars>>

(***************************************************************************)
(* Listing: any bucket of at most MaxKeys keys, any path glob, on a        *)
(* filesystem built with no endpoint.                                      *)
(***************************************************************************)
LsInit ==
    /\ objects \in Buckets(Keys, MaxKeys, {0})
    /\ s3_endpoint_url = _endpoint_url(NoEndpoint)
    /\ s3_region = None
    /\ call = NoCall
    /\ requests = <<>>
    /\ ClassifyIdle
    /\ RetryIdle

LsNext ==
    \/ Ls(PathGlobs, {LocationDefault, LocationMissing}, {"ok"})
    \/ Return

SpecLs == LsInit /\ [][LsNext]_vars

(***************************************************************************)
(* The facade on a small bucket, with any endpoint configuration and every *)
(* fault of the bucket lookup and of the enumeration.                      *)
(***************************************************************************)
FsKeys == {<<"a">>, <<"a", "/", "a">>}
FsSizes == {0, 7}
FsKeyGlobs == {<<"a">>, <<"A">>, <<"a", "/", "a">>, <<"a", "*">>, <<"?">>}
FsPaths == {Uri(S3, g) : g \in FsKeyGlobs} \cup {S3 \o <<":", "/", "/">> \o BucketName}

FsInit ==
    /\ objects \in Buckets(FsKeys, Cardinality(FsKeys), FsSizes)
    /\ s3_endpoint_url \in {_endpoint_url(e) : e \in Endpoints}
    /\ s3_region \in RegionHints
    /\ call = NoCall
    /\ requests = <<>>
    /\ ClassifyIdle
    /\ RetryIdle

FsNext ==
    \/ GetBucket(LocationOutcomes)
    \/ Ls(FsPaths, LocationOutcomes, ListingOutcomes)
    \/ Exists(FsPaths, LocationOutcomes, ListingOutcomes)
    \/ Rm(FsPaths, LocationOutcomes, ListingOutcomes)
    \/ Touchz(FsPaths, LocationOutcomes)
    \/ Return

SpecFs == FsInit /\ [][FsNext]_vars

(***************************************************************************)
(* What the listing claims speak of, stated without the code's helpers.    *)
(***************************************************************************)
HasWildcard(g) == \E i \in 1..Len(g) : g[i] \in Wildcards

\* the call that ran last is an ls that ran to its end; its argument is
\* then ArgScheme://b/ArgKey
Listed == call.op = "ls" /\ call.error = None

ArgScheme == CHOOSE sch \in Schemes : startswith(call.arg, Uri(sch, <<>>))

ArgKey == SubSeq(call.arg, Len(Uri(ArgScheme, <<>>)) + 1, Len(call.arg))

KeyUri(k) == Uri(ArgScheme, k)

\* Glob matching by the set of pattern positions reached: position j stands
\* for "pat[j] is to be matched next"; a '*' may also be skipped.
StarClosure(pat, P) ==
    LET RECURSIVE Close(_)
        Close(Q) ==
            LET R == Q \cup {j + 1 : j \in {q \in Q : q <= Len(pat) /\ pat[q] = "*"}}
            IN  IF R = Q THEN Q ELSE Close(R)
    IN  Close(P)

RECURSIVE PositionsAfter(_, _, _)
PositionsAfter(name, pat, n) ==
    IF n = 0 THEN StarClosure(pat, {1})
    ELSE LET P == PositionsAfter(name, pat, n - 1)
         IN  StarClosure(pat,
                {j \in P : j <= Len(pat) /\ pat[j] = "*"}
                \cup {j + 1 : j \in {q \in P : q <= Len(pat) /\ pat[q] # "*"
                                                /\ (pat[q] = "?" \/ pat[q] = name[n])}})

GlobMatches(name, pat) == (Len(pat) + 1) \in PositionsAfter(name, pat, Len(name))

\* the directory glob of G: G + '/*' when G does not end in '/', else G + '*'
DirectoryGlob(G) ==
    IF G[Len(G)] = "/" THEN G \o <<"*">> ELSE G \o <<"/", "*">>

\* C1: for a wildcard-free path P = scheme://b/p that does not end in '/',
\* ls(P) yields exactly the URIs of the keys equal to p or starting with
\* p + '/': nested keys are all yielded, keys elsewhere and keys that only
\* share p as a string prefix are not.
C1_LsPlainPath ==
    (Listed /\ ArgKey # <<>> /\ ~HasWildcard(ArgKey) /\ ArgKey[Len(ArgKey)] # "/")
        => call.yielded =
               {KeyUri(k) : k \in {k \in DOMAIN objects :
                                      k = ArgKey \/ startswith(k, ArgKey \o <<"/">>)}}

\* an ls of a plain path that yielded a nested key and left out a key that
\* shares the path's key as a string prefix only
C1_Witness ==
    /\ Listed /\ ArgKey # <<>> /\ ~HasWildcard(ArgKey) /\ ArgKey[Len(ArgKey)] # "/"
    /\ \E k \in DOMAIN objects :
           startswith(k, ArgKey \o <<"/">>) /\ KeyUri(k) \in call.yielded
    /\ \E k \in DOMAIN objects :
           startswith(k, ArgKey) /\ KeyUri(k) \notin call.yielded

\* C2: for a glob G = scheme://b/g of literals, '?' and '*', ls(G) yields
\* exactly the URIs of the bucket's keys whose URI matches G or G's
\* directory glob, case-sensitively: nothing else is yielded and the prefix
\* scan leaves no matching key out.
C2_LsGlob ==
    Listed
        => call.yielded =
               {u \in {KeyUri(k) : k \in DOMAIN objects} :
                   \/ GlobMatches(u, call.arg)
                   \/ GlobMatches(u, DirectoryGlob(call.arg))}

\* an ls of a glob with a literal after its first wildcard that yielded a key
\* and rejected another key of the prefix scan
C2_Witness ==
    /\ Listed
    /\ HasWildcard(ArgKey)
    /\ FirstIn(ArgKey, Wildcards) > 1
    /\ ArgKey[Len(ArgKey)] \notin Wildcards
    /\ call.yielded # {}
    /\ \E k \in DOMAIN objects :
           startswith(k, SubSeq(ArgKey, 1, FirstIn(ArgKey, Wildcards) - 1))
           /\ KeyUri(k) \notin call.yielded

\* C3 as stated: for a pattern P without wildcards ls(P) yields no URI or
\* exactly one URI, equal to P.
C3_AsStated ==
    (Listed /\ ~HasWildcard(ArgKey)) => call.yielded \subseteq {call.arg}

\* C3 amended: for a pattern P without wildcards every URI ls(P) yields is P
\* itself or the URI of a key nested under P (it starts with P + '/', or with
\* P when P ends in '/'); with no such key in the bucket ls(P) yields no URI
\* or exactly one URI, equal to P.
C3_LsExactOrNested ==
    (Listed /\ ~HasWildcard(ArgKey))
        => LET P == call.arg
               dir == IF P[Len(P)] = "/" THEN P ELSE P \o <<"/">>
               nested == {k \in DOMAIN objects : startswith(KeyUri(k), dir)}
           IN  /\ \A u \in call.yielded : u = P \/ startswith(u, dir)
               /\ nested = {} => call.yielded \subseteq {P}

\* an ls of a pattern without wildcards that yielded the pattern and nothing
\* else, from a bucket that holds another key as well
C3_Witness ==
    /\ Listed /\ ~HasWildcard(ArgKey)
    /\ call.yielded = {call.arg}
    /\ Cardinality(DOMAIN objects) > 1

(***************************************************************************)
(* What the claims on exists, touchz, rm and get_bucket speak of.          *)
(***************************************************************************)
\* the call's path names a key of the bucket (scheme://b/...)
CallHasKey(c) == \E sch \in Schemes : startswith(c.arg, Uri(sch, <<>>))

CallKey(c) ==
    LET sch == CHOOSE x \in Schemes : startswith(c.arg, Uri(x, <<>>))
    IN  SubSeq(c.arg, Len(Uri(sch, <<>>)) + 1, Len(c.arg))

\* the call met no fault of the store
NoFault(c) == c.loc.error = None /\ c.listing = "ok"

\* the bucket was resolved and the key enumeration failed with a not-found
\* error
NotFound(c) == c.loc.error = None /\ c.listing = "NoSuchBucket"

\* C4 as stated: exists(glob) is true iff ls(glob) yields a URI, and when
\* the lookup made while listing fails with a not-found error exists(glob)
\* returns false and raises nothing.
C4_ExistsAsStated ==
    (call.op = "exists" /\ CallHasKey(call))
        => /\ NoFault(call)
               => /\ call.error = None
                  /\ (call.ret = "True") <=> (ls(call.arg, call.loc, "ok").yielded # {})
           /\ NotFound(call) => (call.error = None /\ call.ret = "False")

\* C5 as stated: touchz on a path holding a zero-byte object succeeds and
\* leaves a zero-byte object; on a path holding an object of nonzero size it
\* raises the conflict error, leaves the bucket as it was and sends no write.
C5_TouchzAsStated ==
    [][(/\ call.op = "none"
        /\ call'.op = "touchz"
        /\ NoFault(call')
        /\ CallHasKey(call')
        /\ CallKey(call') \in DOMAIN objects)
           => IF objects[CallKey(call')] = 0
              THEN /\ call'.error = None
                   /\ CallKey(call') \in DOMAIN objects'
                   /\ objects'[CallKey(call')] = 0
              ELSE /\ call'.error = "OSError"
                   /\ objects' = objects
                   /\ \A i \in 1..Len(requests') : requests'[i].api # "put_object"]_vars

\* C6 as stated: with no fault of the store rm(glob) completes without an
\* error (also when the glob matches nothing, as after a first rm), and an
\* ls(glob) after it yields nothing.
C6_RmAsStated ==
    (call.op = "rm" /\ CallHasKey(call) /\ NoFault(call))
        => /\ call.error = None
           /\ ls(call.arg, call.loc, "ok").yielded = {}

\* C9 as stated: when the bucket-location lookup is denied (403) get_bucket
\* does not fail and returns a bucket routed through the default region
\* (region_name = None); any other client error (404) reaches the caller.
C9_GetBucketAsStated ==
    call.op = "get_bucket"
        => /\ call.loc = LocationDenied
               => /\ call.error = None
                  /\ call.ret = None
                  /\ requests[Len(requests)].api = "boto3.resource"
                  /\ requests[Len(requests)].region_name = None
           /\ call.loc = LocationMissing => call.error = "ClientError"

Constructions == {i \in 1..Len(requests) : requests[i].api \in {"boto3.client", "boto3.resource"}}
Lookups == {i \in 1..Len(requests) : requests[i].api = "get_bucket_location"}

\* C10 as stated: with a static endpoint override no bucket-location lookup
\* is issued and every client or resource uses the override endpoint with the
\* region hint; without an override the region hint is never used.
C10_AsStated ==
    /\ ~Falsy(s3_endpoint_url)
           => /\ Lookups = {}
              /\ \A i \in Constructions :
                     /\ requests[i].endpoint_url = s3_endpoint_url
                     /\ requests[i].region_name = s3_region
    /\ (Falsy(s3_endpoint_url) /\ s3_region # None)
           => \A i \in Constructions : requests[i].region_name # s3_region

\* C10 amended: with a static endpoint override every get_bucket call (and
\* so every ls, exists, rm, touchz that resolves a bucket) still issues one
\* bucket-location lookup, through a client built on the override endpoint,
\* and does not use its result: every client or resource it constructs uses
\* the override endpoint with the region hint, whatever region the bucket
\* reports; without an override the region hint is never used.
C10_EndpointOverride ==
    /\ \A i \in 1..Len(requests) :
           requests[i].api = "boto3.client"
               => i < Len(requests) /\ requests[i + 1].api = "get_bucket_location"
    /\ ~Falsy(s3_endpoint_url)
           => \A i \in 1..Len(requests) :
                  /\ requests[i].endpoint_url = s3_endpoint_url
                  /\ requests[i].region_name = s3_region
    /\ (Falsy(s3_endpoint_url) /\ s3_region # None)
           => \A i \in 1..Len(requests) :
                  /\ requests[i].region_name # s3_region
                  /\ requests[i].endpoint_url = NoEndpoint

\* a get_bucket on a filesystem with an endpoint and a region hint, for a
\* bucket that reports another region: the lookup was sent and the resource
\* was built with the hint
C10_Witness ==
    /\ call.op = "get_bucket"
    /\ call.error = None
    /\ ~Falsy(s3_endpoint_url)
    /\ s3_region # None
    /\ call.loc.LocationConstraint = "us-west-2"
    /\ Lookups # {}
    /\ requests[Len(requests)].api = "boto3.resource"
    /\ requests[Len(requests)].region_name = s3_region

(***************************************************************************)
(* The retry predicates.                                                   *)
(*                                                                         *)
(* An error is [cls, code, body, status, args]: its class, the             *)
(* response['Error']['Code'] of a botocore ClientError and the body of a   *)
(* boto BotoServerError (both as sequences of word tokens, so that "in" is *)
(* a search for a run of tokens), the HTTP status (0: none given) and the  *)
(* args of a socket.error.                                                 *)
(***************************************************************************)
MaxCodeLen == 2

CodeTokens == {"Throttl", "ing", "Request", "Expired", "Timeout", "Denied"}
Codes == SeqsUpTo(CodeTokens, MaxCodeLen)
Statuses == {0, 400, 403, 503, 505}
SocketArgs == {<<>>, <<104>>,
               <<104, "Connection reset by peer">>, <<110, "Connection timed out">>,
               <<104, "Connection timed out">>, <<110, "Connection reset by peer">>,
               <<111, "Connection refused">>}

Errors ==
    {[cls |-> "ClientError", code |-> c, body |-> <<>>, status |-> st, args |-> <<>>] :
        c \in Codes, st \in Statuses}
    \cup {[cls |-> "BotoServerError", code |-> <<>>, body |-> b, status |-> st, args |-> <<>>] :
        b \in Codes, st \in Statuses}
    \cup {[cls |-> "socket.error", code |-> <<>>, body |-> <<>>, status |-> 0, args |-> a] :
        a \in SocketArgs}
    \cup {[cls |-> "ValueError", code |-> <<>>, body |-> <<>>, status |-> 0, args |-> <<>>]}

\* sub in s
Contains(s, sub) ==
    \E i \in 0..(Len(s) - Len(sub)) : SubSeq(s, i + 1, i + Len(sub)) = sub

ConnectionLost ==
    {<<104, "Connection reset by peer">>, <<110, "Connection timed out">>}

\* wrap_aws_conn.retry_if(ex), of the deprecated boto connection
retry_if(e) ==
    \/ /\ e.cls = "BotoServerError"
       /\ \/ Contains(e.body, <<"Throttl", "ing">>)
          \/ Contains(e.body, <<"Request", "Expired">>)
          \/ e.status = 505
    \/ /\ e.cls = "socket.error"
       /\ e.args \in ConnectionLost

\* _is_retriable_client_error with "code in (...)" for "c in code"
_is_retriable_exact_code(e) ==
    IF e.cls = "ClientError"
    THEN IF e.code \in {<<"Throttl">>, <<"Request", "Expired">>, <<"Timeout">>}
         THEN TRUE
         ELSE e.status = 505
    ELSE IF e.cls = "socket.error"
    THEN e.args \in ConnectionLost
    ELSE FALSE

_is_retriable_client_error(e) ==
    IF e.cls = "ClientError"
    THEN IF \E c \in {<<"Throttl">>, <<"Request", "Expired">>, <<"Timeout">>} :
                Contains(e.code, c)
         THEN TRUE
         ELSE e.status = 505
    ELSE IF e.cls = "socket.error"
    THEN e.args \in ConnectionLost
    ELSE FALSE

Classify ==
    /\ ex = NoError
    /\ \E e \in Errors :
           /\ ex' = e
           /\ verdict' = [client |-> _is_retriable_client_error(e), conn |-> retry_if(e)]
    /\ UNCHANGED <<fsVars, retryVars>>

Forget ==
    /\ ex # NoError
    /\ ex' = NoError
    /\ verdict' = [client |-> FALSE, conn |-> FALSE]
    /\ UNCHANGED <<fsVars, retryVars>>

ClassifyInit == FsIdle /\ ClassifyIdle /\ RetryIdle

ClassifyNext == Classify \/ Forget

SpecClassify == ClassifyInit /\ [][ClassifyNext]_vars

\* what the claim calls retryable in a service error: throttling, an expired
\* request signature or HTTP 505
SaysThrottled(text) == \E i \in 1..Len(text) : text[i] = "Throttl"
SaysExpired(text) ==
    \E i \in 1..(Len(text) - 1) : text[i] = "Request" /\ text[i + 1] = "Expired"
SaysTimeout(text) == \E i \in 1..Len(text) : text[i] = "Timeout"

SocketRetryable ==
    /\ ex.cls = "socket.error"
    /\ Len(ex.args) = 2
    /\ \/ ex.args[1] = 104 /\ ex.args[2] = "Connection reset by peer"
       \/ ex.args[1] = 110 /\ ex.args[2] = "Connection timed out"

\* C7 as stated: an error is retryable iff it is a service error of
\* throttling, of an expired request signature or with HTTP status 505, or a
\* socket.error with args (104, 'Connection reset by peer') or
\* (110, 'Connection timed out'); every other error is not.
C7_AsStated ==
    ex.cls \in {"ClientError", "socket.error", "ValueError"}
        => (verdict.client <=>
               \/ /\ ex.cls = "ClientError"
                  /\ (SaysThrottled(ex.code) \/ SaysExpired(ex.code) \/ ex.status = 505)
               \/ SocketRetryable)

\* C7 amended: the boto3 predicate answers retryable iff the error is a
\* ClientError whose code has 'Throttl', 'RequestExpired' or 'Timeout' in
\* it or whose HTTP status is 505, or a socket.error with args
\* (104, 'Connection reset by peer') or (110, 'Connection timed out'); the
\* boto predicate iff it is a BotoServerError whose body has 'Throttling' or
\* 'RequestExpired' in it or whose status is 505, or such a socket.error;
\* every other error is not retryable.
C7_RetryClassification ==
    /\ verdict.client <=>
           \/ /\ ex.cls = "ClientError"
              /\ \/ SaysThrottled(ex.code) \/ SaysExpired(ex.code) \/ SaysTimeout(ex.code)
                 \/ ex.status = 505
           \/ SocketRetryable
    /\ verdict.conn <=>
           \/ /\ ex.cls = "BotoServerError"
              /\ \/ \E i \in 1..(Len(ex.body) - 1) :
                        ex.body[i] = "Throttl" /\ ex.body[i + 1] = "ing"
                 \/ SaysExpired(ex.body)
                 \/ ex.status = 505
           \/ SocketRetryable

\* a ClientError of a request timeout, status 400, was classified retryable
C7_Witness ==
    /\ ex.cls = "ClientError"
    /\ ex.code = <<"Request", "Timeout">>
    /\ ex.status = 400
    /\ verdict.client

(***************************************************************************)
(* The retry wrapper around a boto3 client.                                *)
(***************************************************************************)
_EMR_BACKOFF == 20
\* 1.5, as numerator and denominator
_EMR_BACKOFF_MULTIPLIER == <<3, 2>>
_EMR_MAX_TRIES == 20

\* RetryWrapper(raw_client, retry_if=...) with its own defaults for the rest
_wrap_aws_client_defaults ==
    [retry_if |-> "_is_retriable_client_error",
     backoff |-> 15,
     multiplier |-> <<3, 2>>,
     max_tries |-> 10]

\* _wrap_aws_client(raw_client): the RetryWrapper's configuration
_wrap_aws_client ==
    [retry_if |-> "_is_retriable_client_error",
     backoff |-> _EMR_BACKOFF,
     multiplier |-> _EMR_BACKOFF_MULTIPLIER,
     max_tries |-> _EMR_MAX_TRIES]

\* the wrapper's retry_if applied to an error
RetryIf(w, e) ==
    IF w.retry_if = "_is_retriable_client_error"
    THEN _is_retriable_client_error(e)
    ELSE retry_if(e)

\* what one invocation of the wrapped method can raise
Raised ==
    {[cls |-> "ClientError", code |-> <<"Throttl", "ing">>, body |-> <<>>, status |-> 400, args |-> <<>>],
     [cls |-> "ClientError", code |-> <<"Request", "Expired">>, body |-> <<>>, status |-> 400, args |-> <<>>],
     [cls |-> "ClientError", code |-> <<>>, body |-> <<>>, status |-> 505, args |-> <<>>],
     [cls |-> "socket.error", code |-> <<>>, body |-> <<>>, status |-> 0,
      args |-> <<104, "Connection reset by peer">>],
     [cls |-> "ClientError", code |-> <<"Denied">>, body |-> <<>>, status |-> 403, args |-> <<>>],
     [cls |-> "socket.error", code |-> <<>>, body |-> <<>>, status |-> 0,
      args |-> <<111, "Connection refused">>]}

\* a method of the wrapped client is called
CallWrapped ==
    /\ pc = "idle"
    /\ pc' = "calling"
    /\ tries' = 0
    /\ backoff' = <<_wrap_aws_client.backoff, 1, 1>>
    /\ slept' = <<>>
    /\ attempts' = 0
    /\ outcomes' = <<>>
    /\ last' = NoError
    /\ UNCHANGED <<fsVars, classifyVars>>

\* one attempt that returns
AttemptReturns ==
    /\ pc = "calling"
    /\ attempts' = attempts + 1
    /\ outcomes' = Append(outcomes, "ok")
    /\ last' = NoError
    /\ pc' = "returned"
    /\ UNCHANGED <<tries, backoff, slept, fsVars, classifyVars>>

\* one attempt that raises: inside the loop (tries < max_tries - 1) a
\* retriable error is slept on and the call tried again; any other error,
\* and any error of the last attempt, reaches the caller
AttemptRaises ==
    /\ pc = "calling"
    /\ \E e \in Raised :
           /\ attempts' = attempts + 1
           /\ last' = e
           /\ outcomes' = Append(outcomes, IF RetryIf(_wrap_aws_client, e)
                                           THEN "retriable" ELSE "fatal")
           /\ IF tries < _wrap_aws_client.max_tries - 1 /\ RetryIf(_wrap_aws_client, e)
              THEN /\ slept' = Append(slept, backoff)
                   /\ tries' = tries + 1
                   /\ backoff' = <<backoff[1],
                                   backoff[2] * _wrap_aws_client.multiplier[1],
                                   backoff[3] * _wrap_aws_client.multiplier[2]>>
                   /\ pc' = "calling"
              ELSE /\ pc' = "raised"
                   /\ UNCHANGED <<tries, backoff, slept>>
    /\ UNCHANGED <<fsVars, classifyVars>>

\* the caller has the result or the error
Done ==
    /\ pc \in {"returned", "raised"}
    /\ pc' = "idle"
    /\ tries' = 0
    /\ backoff' = <<0, 1, 1>>
    /\ slept' = <<>>
    /\ attempts' = 0
    /\ outcomes' = <<>>
    /\ last' = NoError
    /\ UNCHANGED <<fsVars, classifyVars>>

RetryInit == FsIdle /\ ClassifyIdle /\ RetryIdle

RetryNext == CallWrapped \/ AttemptReturns \/ AttemptRaises \/ Done

SpecRetry == RetryInit /\ [][RetryNext]_vars

RECURSIVE Pow(_, _)
Pow(b, n) == IF n = 0 THEN 1 ELSE b * Pow(b, n - 1)

\* C8: with initial backoff 20, multiplier 1.5 and max_tries 20, a call
\* whose first N - 1 attempts raise retryable errors and whose attempt N
\* returns (N <= 20) succeeds after exactly N attempts, having slept
\* 20 * 1.5^i before attempt i + 2 for i = 0..N-2 in that order; and no call
\* makes more than 20 attempts.
C8_RetryBackoff ==
    /\ attempts <= 20
    /\ \A N \in 1..20 :
           (/\ Len(outcomes) >= N
            /\ outcomes[N] = "ok"
            /\ \A i \in 1..(N - 1) : outcomes[i] = "retriable")
               => /\ pc = "returned"
                  /\ attempts = N
                  /\ Len(slept) = N - 1
                  /\ \A i \in 0..(N - 2) :
                         slept[i + 1] = <<20, Pow(3, i), Pow(2, i)>>

\* a call that returned on attempt 20, after 19 retryable errors and 19 sleeps
C8_Witness ==
    /\ pc = "returned"
    /\ attempts = 20
    /\ Len(slept) = 19
    /\ \A i \in 1..19 : outcomes[i] = "retriable"

====
